---- MODULE Spec2Model ----
\* Verification model of ble-sync-cycle: the orchestrator (startAppControllers),
\* the peripheral resolver (scanForBLESpeedCharacteristic, GetBLECharacteristic,
\* scanForBLEPeripheral), the two concurrent activities (monitorBLESpeed,
\* playVideo) and the CSC decoder (processBLESpeed).
EXTENDS Integers, Sequences, FiniteSets, TLC

\* ------------------------------------------------------------------ bounds
\* Advertisement packets the adapter delivers during one scan.
MaxAds == 2
\* BLEController instances created in one process.
MaxControllers == 2
\* Notifications delivered in one decoder run.
MaxNotifications == 3

\* ------------------------------------------------------- values of the code
\* A nil error.
Nil == "nil"
\* A variable that holds no value yet.
None == "none"
\* context.Canceled.Error(), the value of ctx.Err() after any cancellation.
ErrCanceled == "context canceled"
\* errors.New("scanning time limit reached")
ErrScanTimeout == "scanning time limit reached"
\* Errors the adapter, the characteristic and the player hand back.
ErrConnect == "connect failed"
ErrServices == "service discovery failed"
ErrChars == "characteristic discovery failed"
ErrSubscribe == "enable notifications failed"
ErrPlayback == "playback failed"

\* logger.ComponentType values.
APP == "APP"
BLE == "BLE"
VIDEO == "VIDEO"

\* m.bleConfig.SensorUUID and the address of some other peripheral.
SensorUUID == "sensor"
OtherUUID == "other"
Addresses == {SensorUUID, OtherUUID}

\* bluetooth.New16BitUUID(0x1816) and bluetooth.New16BitUUID(0x2A5B)
CSCService == 6166
CSCMeasurement == 10843

VARIABLES
  \* the shared context and what cancelled it
  ctxDone, sigReceived, rootCancelled, stopCalled,
  \* startAppControllers
  orchPc, result, resolveErr, errs,
  \* the goroutine of scanForBLESpeedCharacteristic running GetBLECharacteristic
  resPc, scanResult, resErr, errChan, results, connectAttempted,
  svcReply, charReply, crashed,
  \* scanForBLEPeripheral: its scan goroutine, the adapter, the timeout, the
  \* advertisement the callback saw last (address, whether StopScan works) and
  \* the number of matches the callback had seen when the timeout fired
  scanPc, adapterScanning, cbResult, found, timerFired, adsSeen, matchesSeen,
  stopOnDone, lastAd, matchesAtExpiry,
  \* the two activities, and what EnableNotifications returned
  monPc, monRet, enableErr, vidPc, vidRet,
  \* what the run was doing when the context was cancelled from outside
  cancelMidScan, cancelWhileRunning,
  \* package ble: the package-level CSC variables and the controllers made
  lastWheelRevs, lastWheelTime, ctrl,
  \* what each controller has decoded so far, and the decoder state its own
  \* notifications left
  decN, validSeen, lastSpeed, own,
  \* the notification handled last (controller, payload, the decoder state it
  \* found) and the values handed to speedController.UpdateSpeed, in call order
  lastIn, updates

ctxVars == <<ctxDone, sigReceived, rootCancelled, stopCalled>>
orchVars == <<orchPc, result, resolveErr, errs>>
resVars == <<resPc, scanResult, resErr, errChan, results, connectAttempted,
             svcReply, charReply, crashed>>
scanVars == <<scanPc, adapterScanning, cbResult, found, timerFired, adsSeen,
              matchesSeen, stopOnDone, lastAd,
              matchesAtExpiry>>
actVars == <<monPc, monRet, enableErr, vidPc, vidRet>>
histVars == <<cancelMidScan, cancelWhileRunning>>

appVars == <<ctxVars, orchVars, resVars, scanVars, actVars, histVars>>

decVars == <<lastWheelRevs, lastWheelTime, ctrl, decN, validSeen, lastSpeed,
             own, lastIn, updates>>

vars == <<appVars, decVars>>

\* The (component, error) pair startAppControllers returns.
Result(c, e) == [componentType |-> c, err |-> e]

NoResult == Result(None, None)

\* The process is alive: no goroutine has panicked.
Alive == ~crashed

\* Replies of the adapter to DiscoverServices / DiscoverCharacteristics.
Replies(uuid) ==
  [err : {Nil}, list : {<<>>, <<uuid>>}]
    \cup [err : {ErrServices, ErrChars}, list : {<<>>}]

\* No advertisement has reached the scan callback yet.
NoAd == [addr |-> None, stopOk |-> TRUE]

\* No reply received yet.
NoReply == [err |-> None, list |-> <<>>]

\* ------------------------------------------------------------------ Init
AppInit ==
  /\ ctxDone = FALSE /\ sigReceived = FALSE /\ rootCancelled = FALSE
  /\ stopCalled = FALSE
  /\ orchPc = "start" /\ result = NoResult /\ resolveErr = None /\ errs = <<>>
  /\ resPc = "idle" /\ scanResult = None /\ resErr = None
  /\ errChan = <<>> /\ results = <<>> /\ connectAttempted = FALSE
  /\ svcReply = NoReply /\ charReply = NoReply /\ crashed = FALSE
  /\ scanPc = "idle" /\ adapterScanning = FALSE /\ cbResult = None
  /\ found = <<>> /\ timerFired = FALSE /\ adsSeen = 0 /\ matchesSeen = 0
  /\ stopOnDone = FALSE /\ lastAd = NoAd /\ matchesAtExpiry = 0
  /\ monPc = "notStarted" /\ monRet = None /\ enableErr = None
  /\ vidPc = "notStarted" /\ vidRet = None
  /\ cancelMidScan = FALSE /\ cancelWhileRunning = FALSE


\* ------------------------------------------------- the context's cancellers
\* The scan is in flight: no timeout yet, no matching advertisement seen.
MidScan == resPc = "scanSelect" /\ ~timerFired /\ matchesSeen = 0

\* Both activities are running and the orchestrator waits in its select.
BothRunning ==
  /\ orchPc = "running"
  /\ monPc \in {"subscribe", "waiting"}
  /\ vidPc = "playing"

\* What an external cancellation of the context records.
ExternalCancel ==
  /\ ctxDone' = TRUE
  /\ cancelMidScan' = (cancelMidScan \/ (~ctxDone /\ MidScan))
  /\ cancelWhileRunning' = (cancelWhileRunning \/ (~ctxDone /\ BothRunning))

\* os.Interrupt / SIGTERM delivered while signal.NotifyContext is registered.
Signal ==
  /\ Alive /\ ~sigReceived /\ ~stopCalled
  /\ sigReceived' = TRUE
  /\ ExternalCancel
  /\ UNCHANGED <<decVars, rootCancelled, stopCalled, orchVars, resVars, scanVars, actVars>>

\* The caller cancels the root context handed to startAppControllers.
RootCancel ==
  /\ Alive /\ ~rootCancelled /\ ~stopCalled
  /\ rootCancelled' = TRUE
  /\ ExternalCancel
  /\ UNCHANGED <<decVars, sigReceived, stopCalled, orchVars, resVars, scanVars, actVars>>

\* The timer of context.WithTimeout(ctx, ScanTimeoutSecs) expires.
TimerFire ==
  /\ Alive /\ resPc = "scanSelect" /\ ~timerFired
  /\ timerFired' = TRUE
  /\ matchesAtExpiry' = matchesSeen
  /\ UNCHANGED <<decVars, ctxVars, orchVars, resVars, actVars, histVars, scanPc,
                 adapterScanning, cbResult, found, adsSeen, matchesSeen, lastAd,
                 stopOnDone>>

\* ------------------------------------------------------------- the resolver
\* startAppControllers calls scanForBLESpeedCharacteristic, which makes its two
\* channels and starts the goroutine that runs GetBLECharacteristic.
StartScan ==
  /\ Alive /\ orchPc = "start"
  /\ orchPc' = "resolving"
  /\ resPc' = "start"
  /\ UNCHANGED <<decVars, ctxVars, result, resolveErr, errs, scanResult, resErr, errChan,
                 results, connectAttempted, svcReply, charReply, crashed,
                 scanVars, actVars, histVars>>

\* GetBLECharacteristic enters scanForBLEPeripheral: the scan context is made,
\* the scan goroutine is started, and the caller reaches its select.
BeginScan ==
  /\ Alive /\ resPc = "start"
  /\ resPc' = "scanSelect"
  /\ scanPc' = "starting"
  /\ UNCHANGED <<decVars, ctxVars, orchVars, scanResult, resErr, errChan, results,
                 connectAttempted, svcReply, charReply, crashed,
                 adapterScanning, cbResult, found, timerFired, adsSeen,
                 matchesSeen, lastAd, matchesAtExpiry, stopOnDone, actVars, histVars>>

\* The scan goroutine calls bleAdapter.Scan: the adapter starts scanning, or
\* Scan returns an error at once (logged) and the goroutine ends.
ScanBegin(ok) ==
  /\ Alive /\ scanPc = "starting"
  /\ IF ok
       THEN scanPc' = "active" /\ adapterScanning' = TRUE
       ELSE scanPc' = "ended" /\ UNCHANGED adapterScanning
  /\ UNCHANGED <<decVars, ctxVars, orchVars, resVars, cbResult, found, timerFired,
                 adsSeen, matchesSeen, lastAd, matchesAtExpiry, stopOnDone, actVars, histVars>>

\* bleAdapter.StopScan(): a request that the adapter may fail to honour.
StopScan(stopOk) == IF stopOk THEN FALSE ELSE adapterScanning

\* A callback that takes every advertisement for the sensor.
MatchAny(addr) == TRUE

\* The address test of the scan callback.
IsMatch(addr) == addr = SensorUUID

\* The adapter delivers one advertisement to the scan callback. On a match the
\* callback stops the scan and is left at its send on found.
Advertise(addr, stopOk) ==
  /\ Alive /\ scanPc = "active" /\ adapterScanning /\ adsSeen < MaxAds
  /\ adsSeen' = adsSeen + 1
  /\ lastAd' = [addr |-> addr, stopOk |-> stopOk]
  /\ IF IsMatch(addr)
       THEN /\ adapterScanning' = StopScan(stopOk)
            /\ matchesSeen' = matchesSeen + 1
            /\ cbResult' = addr
            /\ scanPc' = "callback"
       ELSE UNCHANGED <<adapterScanning, matchesSeen, cbResult, scanPc>>
  /\ UNCHANGED <<decVars, ctxVars, orchVars, resVars, found, timerFired, stopOnDone,
                 matchesAtExpiry, actVars, histVars>>

\* found <- result in the scan callback; found has capacity 1.
FoundSend ==
  /\ Alive /\ scanPc = "callback" /\ Len(found) < 1
  /\ found' = Append(found, cbResult)
  /\ scanPc' = "active"
  /\ UNCHANGED <<decVars, ctxVars, orchVars, resVars, adapterScanning, cbResult,
                 timerFired, adsSeen, matchesSeen, lastAd, matchesAtExpiry, stopOnDone, actVars,
                 histVars>>

\* bleAdapter.Scan returns once the adapter has stopped; the goroutine ends.
ScanEnd ==
  /\ Alive /\ scanPc = "active" /\ ~adapterScanning
  /\ scanPc' = "ended"
  /\ UNCHANGED <<decVars, ctxVars, orchVars, resVars, adapterScanning, cbResult, found,
                 timerFired, adsSeen, matchesSeen, lastAd, matchesAtExpiry, stopOnDone, actVars,
                 histVars>>

\* GetBLECharacteristic returns err; the goroutine of
\* scanForBLESpeedCharacteristic sends it on errChan (capacity 1) and ends.
ResFail(e) ==
  /\ resErr' = e
  /\ errChan' = Append(errChan, e)
  /\ resPc' = "done"

\* select in scanForBLEPeripheral, case result := <-found.
ScanSelectFound ==
  /\ Alive /\ resPc = "scanSelect" /\ Len(found) > 0
  /\ scanResult' = Head(found)
  /\ found' = Tail(found)
  /\ resPc' = "connect"
  /\ UNCHANGED <<decVars, ctxVars, orchVars, resErr, errChan, results, connectAttempted,
                 svcReply, charReply, crashed, scanPc, adapterScanning,
                 cbResult, timerFired, adsSeen, matchesSeen, lastAd, matchesAtExpiry, stopOnDone,
                 actVars, histVars>>

\* m.bleAdapter.StopScan() in case <-scanCtx.Done(); a failure is only logged.
StopOnDone(stopOk) ==
  /\ adapterScanning' = (adapterScanning /\ StopScan(stopOk))
  /\ stopOnDone' = TRUE

\* The error scanForBLEPeripheral returns from case <-scanCtx.Done().
ScanDoneErr == ErrScanTimeout

\* select in scanForBLEPeripheral, case <-scanCtx.Done(): the scan context is
\* done when its timer has fired or its parent is cancelled.
ScanSelectDone(stopOk) ==
  /\ Alive /\ resPc = "scanSelect" /\ (ctxDone \/ timerFired)
  /\ StopOnDone(stopOk)
  /\ ResFail(ScanDoneErr)
  /\ UNCHANGED <<decVars, ctxVars, orchVars, scanResult, results, connectAttempted,
                 svcReply, charReply, crashed, scanPc, cbResult, found,
                 timerFired, adsSeen, matchesSeen, lastAd, matchesAtExpiry, actVars, histVars>>

\* bleAdapter.Connect(result.Address, ...)
Connect(reply) ==
  /\ Alive /\ resPc = "connect"
  /\ connectAttempted' = TRUE
  /\ IF reply # Nil
       THEN ResFail(reply)
       ELSE resPc' = "services" /\ UNCHANGED <<resErr, errChan>>
  /\ UNCHANGED <<decVars, ctxVars, orchVars, scanResult, results, svcReply, charReply,
                 crashed, scanVars, actVars, histVars>>

\* device.DiscoverServices: an error is returned; otherwise svc[0] is read,
\* which panics (index out of range) on an empty list.
DiscoverServices(reply) ==
  /\ Alive /\ resPc = "services"
  /\ svcReply' = reply
  /\ IF reply.err # Nil
       THEN ResFail(reply.err) /\ UNCHANGED crashed
       ELSE IF Len(reply.list) = 0
         THEN crashed' = TRUE /\ resPc' = "panic" /\ UNCHANGED <<resErr, errChan>>
         ELSE resPc' = "chars" /\ UNCHANGED <<resErr, errChan, crashed>>
  /\ UNCHANGED <<decVars, ctxVars, orchVars, scanResult, results, connectAttempted,
                 charReply, scanVars, actVars, histVars>>

\* svc[0].DiscoverCharacteristics: an error is returned; otherwise char[0] is
\* read (a panic on an empty list) and &char[0] is sent on results.
DiscoverCharacteristics(reply) ==
  /\ Alive /\ resPc = "chars"
  /\ charReply' = reply
  /\ IF reply.err # Nil
       THEN ResFail(reply.err) /\ UNCHANGED <<crashed, results>>
       ELSE IF Len(reply.list) = 0
         THEN /\ crashed' = TRUE /\ resPc' = "panic"
              /\ UNCHANGED <<resErr, errChan, results>>
         ELSE /\ results' = Append(results, reply.list[1])
              /\ resPc' = "done"
              /\ UNCHANGED <<resErr, errChan, crashed>>
  /\ UNCHANGED <<decVars, ctxVars, orchVars, scanResult, connectAttempted, svcReply,
                 scanVars, actVars, histVars>>

\* ---------------------------------------------------------- the orchestrator
\* A wrapper that drops the resolver's error.
ScanFailedGeneric(e) == Result(BLE, "BLE peripheral scan failed")

\* errors.New("BLE peripheral scan failed: " + err.Error())
ScanFailed(e) == Result(BLE, "BLE peripheral scan failed: " \o e)

\* A return that leaves the context as it is.
StopWithoutCancel ==
  /\ stopCalled' = TRUE
  /\ UNCHANGED ctxDone

\* The deferred stop() of signal.NotifyContext: it cancels the context.
Stop ==
  /\ stopCalled' = TRUE
  /\ ctxDone' = TRUE

\* startAppControllers returns r; its deferred stop() runs.
Return(r) ==
  /\ orchPc' = "returned"
  /\ result' = r
  /\ Stop

\* select in scanForBLESpeedCharacteristic, case <-ctx.Done(): ctx.Err() is
\* returned and startAppControllers returns it wrapped.
ResolveCancelled ==
  /\ Alive /\ orchPc = "resolving" /\ ctxDone
  /\ resolveErr' = ErrCanceled
  /\ Return(ScanFailed(ErrCanceled))
  /\ UNCHANGED <<decVars, sigReceived, rootCancelled, errs, resVars, scanVars, actVars,
                 histVars>>

\* select in scanForBLESpeedCharacteristic, case err := <-errChan.
ResolveFailed ==
  /\ Alive /\ orchPc = "resolving" /\ Len(errChan) > 0
  /\ resolveErr' = Head(errChan)
  /\ errChan' = Tail(errChan)
  /\ Return(ScanFailed(Head(errChan)))
  /\ UNCHANGED <<decVars, sigReceived, rootCancelled, errs, resPc, scanResult, resErr,
                 results, connectAttempted, svcReply, charReply, crashed,
                 scanVars, actVars, histVars>>

\* select in scanForBLESpeedCharacteristic, case characteristic := <-results;
\* startAppControllers then makes errs and starts both activities.
StartActivities ==
  /\ Alive /\ orchPc = "resolving" /\ Len(results) > 0
  /\ results' = Tail(results)
  /\ resolveErr' = Nil
  /\ orchPc' = "running"
  /\ errs' = <<>>
  /\ monPc' = "subscribe"
  /\ vidPc' = "playing"
  /\ UNCHANGED <<decVars, ctxVars, result, resPc, scanResult, resErr, errChan,
                 connectAttempted, svcReply, charReply, crashed, scanVars,
                 monRet, enableErr, vidRet, histVars>>

\* ------------------------------------------------------------ the activities
\* GetBLEUpdates: char.EnableNotifications succeeds, or fails and err is returned.
MonSubscribe(e) ==
  /\ Alive /\ monPc = "subscribe"
  /\ enableErr' = e
  /\ IF e # Nil
       THEN monRet' = e /\ monPc' = "send"
       ELSE monPc' = "waiting" /\ UNCHANGED monRet
  /\ UNCHANGED <<decVars, ctxVars, orchVars, resVars, scanVars, vidPc, vidRet, histVars>>

\* A monitor that returns nil without waiting for the context.
MonReturnEarly ==
  /\ Alive /\ monPc = "waiting"
  /\ monRet' = Nil
  /\ monPc' = "send"
  /\ UNCHANGED <<decVars, ctxVars, orchVars, resVars, scanVars, enableErr, vidPc, vidRet, histVars>>

\* GetBLEUpdates: <-ctx.Done(), then return nil.
MonCtxDone ==
  /\ Alive /\ monPc = "waiting" /\ ctxDone
  /\ monRet' = Nil
  /\ monPc' = "send"
  /\ UNCHANGED <<decVars, ctxVars, orchVars, resVars, scanVars, enableErr, vidPc, vidRet, histVars>>

\* The monitor goroutine's send on errs (capacity 1).
MonSend ==
  /\ Alive /\ monPc = "send" /\ Len(errs) < 1
  /\ errs' = Append(errs, Result(BLE, monRet))
  /\ monPc' = "done"
  /\ UNCHANGED <<decVars, ctxVars, orchPc, result, resolveErr, resVars, scanVars, monRet, enableErr,
                 vidPc, vidRet, histVars>>

\* videoPlayer.Start returns an error.
VidFail(e) ==
  /\ Alive /\ vidPc = "playing"
  /\ vidRet' = e
  /\ vidPc' = "send"
  /\ UNCHANGED <<decVars, ctxVars, orchVars, resVars, scanVars, monPc, monRet, enableErr, histVars>>

\* videoPlayer.Start returns nil once the context is cancelled.
VidCtxDone ==
  /\ Alive /\ vidPc = "playing" /\ ctxDone
  /\ vidRet' = Nil
  /\ vidPc' = "send"
  /\ UNCHANGED <<decVars, ctxVars, orchVars, resVars, scanVars, monPc, monRet, enableErr, histVars>>

\* videoPlayer.Start returns nil on its own (the player has nothing more to do).
VidEnd ==
  /\ Alive /\ vidPc = "playing" /\ ~ctxDone
  /\ vidRet' = Nil
  /\ vidPc' = "send"
  /\ UNCHANGED <<decVars, ctxVars, orchVars, resVars, scanVars, monPc, monRet, enableErr, histVars>>

\* The playback goroutine's send on errs (capacity 1).
VidSend ==
  /\ Alive /\ vidPc = "send" /\ Len(errs) < 1
  /\ errs' = Append(errs, Result(VIDEO, vidRet))
  /\ vidPc' = "done"
  /\ UNCHANGED <<decVars, ctxVars, orchPc, result, resolveErr, resVars, scanVars, monPc,
                 monRet, enableErr, vidRet, histVars>>

\* An orchestrator that reports the context's error for any failed activity.
ReceivedAsCancelled(compErr) ==
  IF compErr.err # Nil THEN Result(APP, ErrCanceled) ELSE Result(APP, Nil)

\* What startAppControllers returns for the value received from errs.
Received(compErr) ==
  IF compErr.err # Nil
    THEN Result(compErr.componentType, compErr.err)
    ELSE Result(APP, Nil)

\* What startAppControllers returns from case <-ctx.Done().
Cancelled == Result(APP, ErrCanceled)

\* select in startAppControllers, case <-ctx.Done().
RunCancelled ==
  /\ Alive /\ orchPc = "running" /\ ctxDone
  /\ Return(Cancelled)
  /\ UNCHANGED <<decVars, sigReceived, rootCancelled, resolveErr, errs, resVars,
                 scanVars, actVars, histVars>>

\* select in startAppControllers, case compErr := <-errs.
RunReceived ==
  /\ Alive /\ orchPc = "running" /\ Len(errs) > 0
  /\ errs' = Tail(errs)
  /\ Return(Received(Head(errs)))
  /\ UNCHANGED <<decVars, sigReceived, rootCancelled, resolveErr, resVars, scanVars,
                 actVars, histVars>>

\* ------------------------------------------------------------ the decoder
\* uint32 values are kept as two 16-bit halves, so that 32-bit wraparound is
\* computed exactly.
U32(lo, hi) == [lo |-> lo, hi |-> hi]

\* binary.LittleEndian.Uint16(data[off:])
Uint16LE(data, off) == data[off + 1] + 256 * data[off + 2]

\* binary.LittleEndian.Uint32(data[off:])
Uint32LE(data, off) == U32(Uint16LE(data, off), Uint16LE(data, off + 2))

\* uint16(a - b)
Sub16(a, b) == (a - b + 65536) % 65536

\* a - b on uint32
Sub32(a, b) ==
  LET borrow == IF a.lo < b.lo THEN 1 ELSE 0
  IN U32(Sub16(a.lo, b.lo), Sub16(a.hi - borrow, b.hi))

\* A conversion that clamps what does not fit a non-negative int32 to 0.
Int32Clamped(a) ==
  IF a.hi >= 32768 THEN 0 ELSE a.hi * 65536 + a.lo

\* int32(a) for a uint32 a
Int32(a) ==
  IF a.hi >= 32768 THEN (a.hi - 65536) * 65536 + a.lo ELSE a.hi * 65536 + a.lo

\* flags&0x01 != 0
HasWheelRev(flags) == flags % 2 = 1

\* speedConversion, as a decimal fraction: 3.6, or 2.23694 for "mph".
Conversion(units) ==
  IF units = "mph" THEN <<223694, 100000>> ELSE <<36, 10>>

\* float64(revDiff) * float64(circ) * speedConversion / float64(timeDiff), kept
\* as the exact quotient (num * conv[1]) / (den * conv[2]).
SpeedOf(revDiff, circ, conv, timeDiff) ==
  [num |-> revDiff * circ, conv |-> conv, den |-> timeDiff]

\* 0.0
Zero == [num |-> 0, conv |-> <<0, 1>>, den |-> 1]

IsZero(speed) == speed.num = 0 \/ speed.conv[1] = 0

\* A sample with wheel-revolution data: the flag is set and 7 bytes are there.
IsValid(data) == Len(data) >= 7 /\ HasWheelRev(data[1])

\* What processBLESpeed returns and leaves in lastWheelRevs / lastWheelTime.
Out(speed, revs, time) ==
  [speed |-> speed, lastWheelRevs |-> revs, lastWheelTime |-> time]

\* A time difference taken without the uint16 wrap.
TimeDiffNoWrap(wheelEventTime, lwt) ==
  IF wheelEventTime >= lwt THEN wheelEventTime - lwt ELSE lwt - wheelEventTime

\* timeDiff := uint16(wheelEventTime - lastWheelTime)
TimeDiff(wheelEventTime, lwt) == Sub16(wheelEventTime, lwt)

\* An early return that also forgets the baseline.
NoWheelDataReset(lwr, lwt) == Out(Zero, U32(0, 0), 0)

\* The early returns for a sample without wheel data: empty, flag bit 0 unset,
\* or shorter than 7 bytes. Speed 0.0; the package variables are not touched.
NoWheelData(lwr, lwt) == Out(Zero, lwr, lwt)

\* The first sample: lastWheelRevs and lastWheelTime take its values, speed 0.0.
Baseline(wheelRevs, wheelEventTime) == Out(Zero, wheelRevs, wheelEventTime)

\* A zero-delta return that takes the sample as the new previous sample.
ZeroDeltaAdvance(wheelRevs, wheelEventTime, lwr, lwt) ==
  Out(Zero, wheelRevs, wheelEventTime)

\* if timeDiff == 0 { return 0.0 }: the return comes before the assignments to
\* lastWheelRevs and lastWheelTime, which keep their values.
ZeroDelta(wheelRevs, wheelEventTime, lwr, lwt) == Out(Zero, lwr, lwt)

\* processBLESpeed(data) on controller configuration m, reading and writing the
\* package-level lastWheelRevs (lwr) and lastWheelTime (lwt).
ProcessBLESpeed(m, data, lwr, lwt) ==
  IF Len(data) < 1 THEN NoWheelData(lwr, lwt)
  ELSE IF ~HasWheelRev(data[1]) \/ Len(data) < 7 THEN NoWheelData(lwr, lwt)
  ELSE LET wheelRevs == Uint32LE(data, 1)
           wheelEventTime == Uint16LE(data, 5)
           timeDiff == TimeDiff(wheelEventTime, lwt)
           revDiff == Int32(Sub32(wheelRevs, lwr))
       IN IF lwt = 0 THEN Baseline(wheelRevs, wheelEventTime)
          ELSE IF timeDiff = 0 THEN ZeroDelta(wheelRevs, wheelEventTime, lwr, lwt)
          ELSE Out(SpeedOf(revDiff, m.circ, Conversion(m.units), timeDiff),
                   wheelRevs, wheelEventTime)

\* The controllers of the process.
Controllers == 1..MaxControllers

\* A controller that NewBLEController has not made yet.
NoCtrl == [units |-> None, circ |-> 0]

\* cfg.Speed values a controller is made with.
SpeedConfigs == [units : {"km/h", "mph"}, circ : {2105}]

\* Notification payloads: flags, cumulative wheel revolutions (uint32, little
\* endian), last wheel event time (uint16, little endian), cut to n bytes.
Payload(flags, revs, time, n) ==
  SubSeq(<<flags, revs.lo % 256, revs.lo \div 256, revs.hi % 256,
           revs.hi \div 256, time % 256, time \div 256, 0>>, 1, n)

Payloads ==
  { Payload(f, r, t, n) :
      f \in {0, 1},
      r \in {U32(1, 0), U32(3, 0), U32(65535, 65535)},
      t \in {0, 5, 1029, 65531},
      n \in {0, 6, 7, 8} }

\* The decoder state of a session that has decoded nothing: no baseline.
NoBaseline == [lastWheelRevs |-> U32(0, 0), lastWheelTime |-> 0]

\* No notification handled yet.
NoInput == [c |-> 0, buf |-> <<>>, lastWheelRevs |-> U32(0, 0), lastWheelTime |-> 0]

DecInit ==
  /\ lastWheelRevs = U32(0, 0)
  /\ lastWheelTime = 0
  /\ ctrl = [c \in Controllers |-> NoCtrl]
  /\ decN = 0
  /\ validSeen = [c \in Controllers |-> 0]
  /\ lastSpeed = [c \in Controllers |-> Zero]
  /\ own = [c \in Controllers |-> NoBaseline]
  /\ lastIn = NoInput
  /\ updates = <<>>

\* NewBLEController(bleConfig, speedConfig): a new controller; the package-level
\* variables are not touched.
NewBLEController(c, cfg) ==
  /\ ctrl[c] = NoCtrl
  /\ \A d \in Controllers : d < c => ctrl[d] # NoCtrl
  /\ ctrl' = [ctrl EXCEPT ![c] = cfg]
  /\ UNCHANGED <<appVars, lastWheelRevs, lastWheelTime, decN, validSeen,
                 lastSpeed, own, lastIn, updates>>

\* A callback that hands on only the speeds that are not zero.
UpdateNonZero(speed) ==
  updates' = IF IsZero(speed) THEN updates ELSE Append(updates, speed)

\* speedController.UpdateSpeed(speed), as called by the notification callback.
UpdateSpeed(speed) == updates' = Append(updates, speed)

\* The notification callback of controller c: speed := m.processBLESpeed(buf),
\* then speedController.UpdateSpeed(speed).
Notification(c, buf) ==
  /\ ctrl[c] # NoCtrl
  /\ decN < MaxNotifications
  /\ LET out == ProcessBLESpeed(ctrl[c], buf, lastWheelRevs, lastWheelTime)
     IN /\ lastWheelRevs' = out.lastWheelRevs
        /\ lastWheelTime' = out.lastWheelTime
        /\ lastSpeed' = [lastSpeed EXCEPT ![c] = out.speed]
        /\ validSeen' = [validSeen EXCEPT ![c] = @ + (IF IsValid(buf) THEN 1 ELSE 0)]
        /\ own' = [own EXCEPT ![c] = [lastWheelRevs |-> out.lastWheelRevs,
                                      lastWheelTime |-> out.lastWheelTime]]
        /\ UpdateSpeed(out.speed)
  /\ lastIn' = [c |-> c, buf |-> buf, lastWheelRevs |-> lastWheelRevs,
                lastWheelTime |-> lastWheelTime]
  /\ decN' = decN + 1
  /\ UNCHANGED <<appVars, ctrl>>

DecNext ==
  \/ \E c \in Controllers, cfg \in SpeedConfigs : NewBLEController(c, cfg)
  \/ \E c \in Controllers, buf \in Payloads : Notification(c, buf)

\* One monitoring session: the one controller main makes and its notifications.
SessionNext ==
  \/ \E cfg \in SpeedConfigs : NewBLEController(1, cfg)
  \/ \E buf \in Payloads : Notification(1, buf)

\* ------------------------------------------------------------------- Next
Next ==
  \/ Signal
  \/ RootCancel
  \/ TimerFire
  \/ StartScan
  \/ BeginScan
  \/ \E ok \in BOOLEAN : ScanBegin(ok)
  \/ \E addr \in Addresses, stopOk \in BOOLEAN : Advertise(addr, stopOk)
  \/ FoundSend
  \/ ScanEnd
  \/ ScanSelectFound
  \/ \E stopOk \in BOOLEAN : ScanSelectDone(stopOk)
  \/ \E reply \in {Nil, ErrConnect} : Connect(reply)
  \/ \E reply \in Replies(CSCService) : DiscoverServices(reply)
  \/ \E reply \in Replies(CSCMeasurement) : DiscoverCharacteristics(reply)
  \/ ResolveCancelled
  \/ ResolveFailed
  \/ StartActivities
  \/ \E e \in {Nil, ErrSubscribe} : MonSubscribe(e)
  \/ MonCtxDone
  \/ MonSend
  \/ VidFail(ErrPlayback)
  \/ VidCtxDone
  \/ VidEnd
  \/ VidSend
  \/ RunCancelled
  \/ RunReceived

Init == AppInit /\ DecInit

\* One run of the application: startAppControllers and what it starts.
Spec == Init /\ [][Next]_vars

\* The goroutines of the run are scheduled fairly: each one that can take its
\* next step takes it. The timer of the scan timeout expires. Signals, the
\* caller's cancellation, advertisements and failures are not forced.
Fairness ==
  /\ WF_vars(StartScan) /\ WF_vars(BeginScan)
  /\ WF_vars(TimerFire)
  /\ WF_vars(FoundSend)
  /\ WF_vars(ScanSelectFound)
  /\ WF_vars(\E stopOk \in BOOLEAN : ScanSelectDone(stopOk))
  /\ WF_vars(ResolveCancelled) /\ WF_vars(ResolveFailed)
  /\ WF_vars(StartActivities)
  /\ WF_vars(\E e \in {Nil, ErrSubscribe} : MonSubscribe(e))
  /\ WF_vars(MonCtxDone) /\ WF_vars(MonSend)
  /\ WF_vars(VidCtxDone) /\ WF_vars(VidSend)
  /\ WF_vars(RunCancelled) /\ WF_vars(RunReceived)

FairSpec == Spec /\ Fairness

\* The decoder in one monitoring session of one controller.
SessionSpec == Init /\ [][SessionNext]_vars

\* The decoder driven by the notifications of the controllers of one process.
DecoderSpec == Init /\ [][DecNext]_vars

\* ------------------------------------------------------------------ claims
\* The errors an activity can return.
ActivityErrors == {ErrSubscribe, ErrPlayback}

\* The activity has returned from GetBLEUpdates / videoPlayer.Start.
MonReturned == monPc \in {"send", "done"}
VidReturned == vidPc \in {"send", "done"}

\* No signal was delivered and the caller did not cancel the root context.
NoExternalCancel == ~sigReceived /\ ~rootCancelled

\* C1: when the playback loop returns an error, the monitor has not failed
\* (it is still running until the context is cancelled) and there is no signal
\* and no cancellation by the caller, startAppControllers returns that very
\* error tagged VIDEO: not nil, not the context's error.
C1_PlaybackErrorReported ==
  (/\ orchPc = "returned"
   /\ vidRet \in ActivityErrors
   /\ monRet \notin ActivityErrors
   /\ NoExternalCancel)
    => result = [componentType |-> VIDEO, err |-> vidRet]

\* C1 witness: startAppControllers has returned the playback error while the
\* monitor is still waiting on the context.
C1_Witness ==
  /\ orchPc = "returned"
  /\ vidRet = ErrPlayback
  /\ monPc = "waiting"
  /\ NoExternalCancel
  /\ result = [componentType |-> VIDEO, err |-> ErrPlayback]

\* C2: whenever an activity has returned an error, the shared context is
\* eventually cancelled and both activities have eventually returned.
C2_ErrorCancelsContext ==
  (monRet \in ActivityErrors \/ vidRet \in ActivityErrors)
    ~> (ctxDone /\ MonReturned /\ VidReturned)

\* C2 witness: the playback loop failed, nothing outside cancelled the context,
\* and the monitor has returned nil from its wait on the context.
C2_Witness ==
  /\ vidRet = ErrPlayback
  /\ NoExternalCancel
  /\ ctxDone
  /\ monRet = Nil

\* C3: when the context is cancelled from outside while both activities run and
\* neither activity fails, startAppControllers returns a nil error.
C3_ExternalCancelReportsNil ==
  (/\ orchPc = "returned"
   /\ cancelWhileRunning
   /\ monRet \notin ActivityErrors
   /\ vidRet \notin ActivityErrors)
    => result.err = Nil

\* C4: when startAppControllers has returned an activity's error, both
\* activities have returned.
C4_ReturnsAfterBothActivities ==
  (/\ orchPc = "returned"
   /\ resolveErr = Nil
   /\ result.componentType \in {BLE, VIDEO})
    => (MonReturned /\ VidReturned)

\* C5: startAppControllers leaves its select over the running activities only
\* on a signal, a cancellation by the caller, or an activity's error.
C5_LeavesRunningOnlyOnTrigger ==
  (orchPc = "returned" /\ resolveErr = Nil)
    => \/ sigReceived
       \/ rootCancelled
       \/ monRet \in ActivityErrors
       \/ vidRet \in ActivityErrors

\* C6: when GetBLECharacteristic has failed, no activity is ever started, and
\* what startAppControllers returns is tagged BLE and carries the error that
\* scanForBLESpeedCharacteristic returned: the resolver's own error, unless the
\* context was cancelled from outside.
C6_ResolutionFailureAborts ==
  resErr # None =>
    /\ monPc = "notStarted" /\ vidPc = "notStarted"
    /\ orchPc # "running"
    /\ orchPc = "returned" =>
         /\ result.componentType = BLE
         /\ result.err = "BLE peripheral scan failed: " \o resolveErr
         /\ resolveErr \in {resErr, ErrCanceled}
         /\ NoExternalCancel => resolveErr = resErr

\* C6 witness: service discovery failed and startAppControllers has returned
\* that error, wrapped, with no activity started.
C6_Witness ==
  /\ orchPc = "returned"
  /\ resErr = ErrServices
  /\ result.err = "BLE peripheral scan failed: service discovery failed"
  /\ monPc = "notStarted" /\ vidPc = "notStarted"

\* C7: when the context is cancelled during a scan, before the timeout and
\* before any match, the error the resolver returns (GetBLECharacteristic, and
\* scanForBLESpeedCharacteristic around it) is the context's, not the timeout's.
C7_CancelMidScanReportsCancelled ==
  (cancelMidScan /\ ~timerFired /\ matchesSeen = 0)
    => /\ resErr # None => resErr = ErrCanceled
       /\ resolveErr # None => resolveErr = ErrCanceled

\* C8: when the scan timeout fired with no matching advertisement seen, a
\* scanForBLEPeripheral that has left its select returned the scan-timeout
\* error and no result, after asking the adapter to stop, and no connect was
\* attempted.
C8_TimeoutWithoutMatchFails ==
  (/\ timerFired /\ matchesAtExpiry = 0
   /\ resPc \notin {"idle", "start", "scanSelect"})
    => /\ resErr = ErrScanTimeout
       /\ scanResult = None
       /\ stopOnDone
       /\ ~connectAttempted

\* The adapter replied with an error or with an empty list.
FailedReply(reply) ==
  reply.err \notin {None, Nil} \/ (reply.err = Nil /\ Len(reply.list) = 0)

\* C9: when either discovery step gets an error or an empty list, the process
\* does not crash and GetBLECharacteristic returns an error and no handle.
C9_EmptyOrErrorReplyFails ==
  (FailedReply(svcReply) \/ FailedReply(charReply))
    => /\ ~crashed
       /\ resErr # None
       /\ results = <<>>

\* C10: the decoder state a controller decodes against is the state its own
\* notifications left (no baseline for a new controller), whatever the other
\* controllers have processed; and a controller's first valid sample yields
\* speed 0.
C10_DecoderStatePerController ==
  \A c \in Controllers :
    ctrl[c] # NoCtrl =>
      /\ lastWheelRevs = own[c].lastWheelRevs
      /\ lastWheelTime = own[c].lastWheelTime
      /\ validSeen[c] = 1 => IsZero(lastSpeed[c])

\* ------------------------------------------------- claims about the decoder
\* The notification handled last carried wheel data: flag bit 0 set, 7 bytes.
LastValid ==
  /\ lastIn.c # 0
  /\ Len(lastIn.buf) >= 7
  /\ lastIn.buf[1] % 2 = 1

\* The cumulative revolutions and the event time of the sample handled last.
InRevs == Uint32LE(lastIn.buf, 1)

InTime == Uint16LE(lastIn.buf, 5)

\* The 16-bit time delta between that sample and the stored event time it found.
InDelta == (InTime - lastIn.lastWheelTime + 65536) % 65536

\* The 32-bit revolution difference between that sample and the stored count it
\* found, read as a signed 32-bit integer.
InRevDiff ==
  LET lo == InRevs.lo - lastIn.lastWheelRevs.lo
      hi == InRevs.hi - lastIn.lastWheelRevs.hi - (IF lo < 0 THEN 1 ELSE 0)
      shi == ((hi + 32768 + 131072) % 65536) - 32768
  IN shi * 65536 + ((lo + 65536) % 65536)

\* revDiff * circumference * conversion / timeDiff for that sample.
InSpeed ==
  [num |-> InRevDiff * ctrl[lastIn.c].circ,
   conv |-> IF ctrl[lastIn.c].units = "mph" THEN <<223694, 100000>> ELSE <<36, 10>>,
   den |-> InDelta]

SpeedEq(a, b) == (IsZero(a) /\ IsZero(b)) \/ a = b

\* The sample handled last is now the stored previous sample.
StateIsSample == lastWheelRevs = InRevs /\ lastWheelTime = InTime

\* C11: the first valid sample of a fresh session, whatever its revolutions and
\* event time (0 included), returns speed 0 and becomes the baseline, so that
\* the next valid sample with a nonzero time delta against it is decoded with
\* the speed formula.
C11_FirstSampleIsBaseline ==
  /\ (LastValid /\ validSeen[1] = 1) => IsZero(lastSpeed[1]) /\ StateIsSample
  /\ (LastValid /\ validSeen[1] = 2 /\ InDelta # 0) =>
       SpeedEq(lastSpeed[1], InSpeed)


\* A valid sample was handled before the one handled last, and the one handled
\* last has a zero time delta against the stored event time.
ZeroDeltaCase == LastValid /\ validSeen[lastIn.c] >= 2 /\ InDelta = 0

\* C12 as stated: with a baseline established, a valid sample whose time delta
\* is zero returns speed 0 and becomes the stored previous sample.
C12_ZeroDeltaUpdatesState ==
  ZeroDeltaCase => IsZero(lastSpeed[lastIn.c]) /\ StateIsSample

\* C12 amended: with a baseline established, a valid sample whose time delta is
\* zero returns speed 0 and leaves the stored event time as it is; the stored
\* revolutions are left as they are too, unless the stored event time is 0, in
\* which case the sample is taken as a baseline.
C12_ZeroDeltaKeepsState ==
  ZeroDeltaCase =>
    /\ IsZero(lastSpeed[lastIn.c])
    /\ lastWheelTime = lastIn.lastWheelTime
    /\ lastWheelRevs =
         IF lastIn.lastWheelTime = 0 THEN InRevs ELSE lastIn.lastWheelRevs

C12_Witness ==
  /\ ZeroDeltaCase
  /\ lastIn.lastWheelTime # 0
  /\ InRevs # lastIn.lastWheelRevs
  /\ lastWheelRevs = lastIn.lastWheelRevs
  /\ IsZero(lastSpeed[lastIn.c])

\* The notification handled last carried no wheel data: it was empty, had flag
\* bit 0 unset, or was shorter than 7 bytes.
LastAnomalous ==
  /\ lastIn.c # 0
  /\ \/ Len(lastIn.buf) = 0
     \/ lastIn.buf[1] % 2 = 0
     \/ Len(lastIn.buf) < 7

\* C13: an empty payload, a payload with flag bit 0 unset, or a payload shorter
\* than 7 bytes decodes to speed 0 and leaves the stored previous revolutions
\* and event time exactly as the notification found them.
C13_AnomalousSampleKeepsState ==
  LastAnomalous =>
    /\ IsZero(lastSpeed[lastIn.c])
    /\ lastWheelRevs = lastIn.lastWheelRevs
    /\ lastWheelTime = lastIn.lastWheelTime

C13_Witness ==
  /\ LastAnomalous
  /\ Len(lastIn.buf) = 6 /\ lastIn.buf[1] = 1
  /\ lastIn.lastWheelTime = 1029
  /\ lastWheelTime = 1029
  /\ IsZero(lastSpeed[lastIn.c])

\* C14: the time delta used by the decoder is the event time minus the stored
\* event time modulo 65536, so an event-time counter that rolled over gives the
\* small positive delta (65531 then 5 gives 10), and a delta of zero gives
\* speed 0.
C14_TimeDeltaWraps ==
  (LastValid /\ lastIn.lastWheelTime # 0) =>
    /\ InDelta # 0 => lastSpeed[lastIn.c].den = InDelta
    /\ InDelta = 0 => IsZero(lastSpeed[lastIn.c])
    /\ (lastIn.lastWheelTime = 65531 /\ InTime = 5) => lastSpeed[lastIn.c].den = 10

C14_Witness ==
  /\ LastValid
  /\ lastIn.lastWheelTime = 65531 /\ InTime = 5
  /\ lastSpeed[lastIn.c].den = 10
  /\ lastSpeed[lastIn.c].num > 0

\* ------------------------------------- claims about GetBLEUpdates and the scan
\* C15: when enabling notifications fails, GetBLEUpdates has returned that
\* error in the same step, whatever the context; when enabling succeeds it has
\* not returned unless the context is cancelled and what it returns is nil;
\* and once enabled with the context cancelled it eventually returns.
C15_MonitorWaitsForContext ==
  /\ [](enableErr = ErrSubscribe => MonReturned /\ monRet = ErrSubscribe)
  /\ []((enableErr = Nil /\ MonReturned) => ctxDone /\ monRet = Nil)
  /\ (enableErr = Nil /\ ctxDone) ~> (MonReturned /\ monRet = Nil)

C15_Witness ==
  /\ enableErr = Nil
  /\ monPc = "done"
  /\ monRet = Nil
  /\ ctxDone

\* C16: every notification is decoded exactly once and the decoded speed is
\* handed to the speed controller exactly once, in arrival order: the calls of
\* UpdateSpeed are as many as the notifications, each notification appends the
\* speed decoded from its payload and the decoder state it found, and a
\* notification without wheel data or with a zero time delta appends 0.
C16_OneUpdatePerNotification ==
  /\ [](/\ Len(updates) = decN
        /\ decN > 0 => updates[decN] = lastSpeed[lastIn.c]
        /\ (decN > 0 /\ (LastAnomalous \/ (LastValid /\ InDelta = 0))) =>
             IsZero(updates[decN]))
  /\ [][decN' = decN + 1 =>
          updates' = Append(updates,
                            ProcessBLESpeed(ctrl[lastIn'.c], lastIn'.buf,
                                            lastWheelRevs, lastWheelTime).speed)]_vars

C16_Witness ==
  /\ decN = 3 /\ Len(updates) = 3
  /\ ~IsZero(updates[2])
  /\ IsZero(updates[3])
  /\ LastAnomalous

\* C17: an advertisement is taken as a match exactly when its address is the
\* configured sensor address; on a match the adapter is asked to stop (a stop
\* that works leaves it stopped) and, whether or not the stop works, the
\* callback goes on to send the result on found; the first match does get
\* sent; whatever sits in found or was returned by scanForBLEPeripheral has the
\* configured address.
C17_OnlyConfiguredAddressMatches ==
  /\ [][adsSeen' = adsSeen + 1 =>
          /\ (matchesSeen' = matchesSeen + 1) <=> (lastAd'.addr = SensorUUID)
          /\ (matchesSeen' = matchesSeen) <=> (lastAd'.addr # SensorUUID)
          /\ lastAd'.addr = SensorUUID =>
               /\ scanPc' = "callback" /\ cbResult' = SensorUUID
               /\ lastAd'.stopOk => ~adapterScanning']_vars
  /\ [](/\ scanResult \in {None, SensorUUID}
        /\ cbResult \in {None, SensorUUID}
        /\ \A i \in 1..Len(found) : found[i] = SensorUUID)
  /\ (scanPc = "callback" /\ matchesSeen = 1) ~> (scanPc # "callback")

C17_Witness ==
  /\ lastAd = [addr |-> SensorUUID, stopOk |-> FALSE]
  /\ adapterScanning
  /\ adsSeen = 2 /\ matchesSeen = 1
  /\ scanResult = SensorUUID
  /\ resPc = "connect"

\* ------------------------------------------ claims about the revolution delta
\* C18: for a valid sample decoded by the formula, the revolution delta is the
\* 32-bit difference of the counts read as a signed 32-bit integer: a counter
\* that wrapped past 2^32 gives the small positive delta, a count lower than
\* the stored one gives a negative delta, and the speed of that sign, not
\* clamped, is what the speed controller receives.
C18_SignedRevolutionDelta ==
  (LastValid /\ lastIn.lastWheelTime # 0 /\ InDelta # 0) =>
    /\ lastSpeed[lastIn.c].num = InRevDiff * ctrl[lastIn.c].circ
    /\ updates[Len(updates)].num = InRevDiff * ctrl[lastIn.c].circ
    /\ (lastIn.lastWheelRevs = U32(65535, 65535) /\ InRevs = U32(1, 0)) =>
         lastSpeed[lastIn.c].num = 2 * ctrl[lastIn.c].circ
    /\ (lastIn.lastWheelRevs = U32(3, 0) /\ InRevs = U32(1, 0)) =>
         lastSpeed[lastIn.c].num = (-2) * ctrl[lastIn.c].circ

C18_Witness ==
  /\ LastValid
  /\ lastIn.lastWheelRevs = U32(3, 0) /\ InRevs = U32(1, 0)
  /\ lastIn.lastWheelTime # 0 /\ InDelta # 0
  /\ updates[Len(updates)].num < 0

\* A valid sample was handled before the one handled last, and the one handled
\* last has a nonzero time delta against the stored event time.
LaterSample == LastValid /\ validSeen[lastIn.c] >= 2 /\ InDelta # 0

\* C20: within one session the baseline is taken exactly once: every valid
\* sample after the first with a nonzero time delta is decoded by the formula
\* against the stored sample and becomes the stored sample, whatever event
\* times (0 included) the earlier samples carried.
C20_BaselineTakenOnce ==
  LaterSample => SpeedEq(lastSpeed[lastIn.c], InSpeed) /\ StateIsSample

\* ------------------------------------------------- claims about the errs channel
\* C19: no activity goroutine is left at its send on errs for ever: once
\* startAppControllers has returned, a full errs never faces a goroutine that
\* still has its result to send.
C19_NoSenderBlockedForever ==
  ~(/\ orchPc = "returned"
    /\ Len(errs) = 1
    /\ (monPc = "send" \/ vidPc = "send"))

====
